---- MODULE Spec2Model ----
(***************************************************************************)
(* The task graph engine of src/src/adag.rs: OctoTree, a map from task id  *)
(* to Task, with add_task, topological_sort (Kahn's algorithm),            *)
(* critical_path and display.  The map is a Rust HashMap, whose iteration  *)
(* order is not fixed: every loop over a HashMap takes its order from a    *)
(* permutation of the keys chosen nondeterministically.                    *)
(***************************************************************************)
EXTENDS Integers, Sequences, FiniteSets, TLC

VARIABLES tasks, op, arg, ret, result, lastAdded, numCalls, added,
          phase, locals, key_bounce, sum, history

vars == <<tasks, op, arg, ret, result, lastAdded, numCalls, added,
          phase, locals, key_bounce, sum, history>>

\* What the operations of OctoTree leave alone: the local variables of a
\* topological_sort run in progress, and the bolts of src/src/storm.rs.
beside == <<locals, key_bounce, sum, history>>

(***************************************************************************)
(* Bounds of the model.                                                    *)
(***************************************************************************)
\* Largest number of dependency entries in a graph, over all its tasks.
MaxEdges == 3
\* Largest number of add_task calls in one behaviour.
MaxAdds == 2
\* Largest number of keys sent to a KeyBounceBolt.
MaxKeys == 5
\* Largest number of inputs sent to a SumBolt.
MaxInputs == 3

\* The ids of the tasks that are passed to add_task.  A dependency names one
\* of them or "ghost", which is never the id of a task; an id that is not in
\* the graph is a nonexistent dependency.
Ids == {"A", "B", "C"}
DepIds == Ids \cup {"ghost"}
Names == {"Task", ""}
SortNames == {"Task"}
\* Task A of the tests has duration 5, Task B duration 3.
Durations == {3, 5}
SortDurations == {5}

(***************************************************************************)
(* Helpers on sequences and sets.                                          *)
(***************************************************************************)
Range(s) == {s[i] : i \in 1..Len(s)}

\* All orders in which the keys S of a HashMap can be iterated.
Perms(S) == {f \in [1..Cardinality(S) -> S] : \A i, j \in 1..Cardinality(S) : f[i] = f[j] => i = j}

RECURSIVE SeqsUpTo(_, _)
SeqsUpTo(S, n) ==
    IF n = 0 THEN {<<>>}
    ELSE LET shorter == SeqsUpTo(S, n - 1)
         IN  shorter \cup {Append(s, x) : s \in {t \in shorter : Len(t) = n - 1}, x \in S}

\* Iterator::max() with unwrap_or(&0), over a set of u32 values.
MaxOr0(S) == IF S = {} THEN 0 ELSE CHOOSE m \in S : \A x \in S : x <= m

EmptyMap == [i \in {} |-> 0]

(***************************************************************************)
(* struct Task.                                                            *)
(***************************************************************************)
Task(id, name, duration, dependencies) ==
    [id |-> id, name |-> name, duration |-> duration, dependencies |-> dependencies]

RECURSIVE SumLens(_, _)
SumLens(ts, S) ==
    IF S = {} THEN 0
    ELSE LET i == CHOOSE x \in S : TRUE
         IN  Len(ts[i].dependencies) + SumLens(ts, S \ {i})

(***************************************************************************)
(* KeyBounceBolt of src/src/storm.rs.  A bolt is [last_key, bounce_count]; *)
(* execute returns the bolt after the call and the Vec<String> of its      *)
(* output, where a formatted string is the sequence of its pieces.         *)
(***************************************************************************)
\* Mutant: a filtered key clears the remembered key.
KeyBounceBolt_execute_Forget(self, input) ==
    IF self.last_key = <<input>>
    THEN [self |-> [last_key |-> <<>>, bounce_count |-> self.bounce_count + 1],
          out  |-> <<<<"Bounce filtered: ", input>>>>]
    ELSE [self |-> [last_key |-> <<input>>, bounce_count |-> 0],
          out  |-> <<<<"Key accepted: ", input>>>>]

\* impl Bolt for KeyBounceBolt: fn execute(&mut self, input: &str)
KeyBounceBolt_execute(self, input) ==
    IF self.last_key # <<>> /\ self.last_key[1] = input
    THEN [self |-> [self EXCEPT !.bounce_count = self.bounce_count + 1],
          out  |-> <<<<"Bounce filtered: ", input>>>>]
    ELSE [self |-> [last_key |-> <<input>>, bounce_count |-> 0],
          out  |-> <<<<"Key accepted: ", input>>>>]

(***************************************************************************)
(* SumBolt of src/src/storm.rs.  A string is the sequence of its           *)
(* characters.  An f64 is [nan, val]: NaN, or the number val / 100; the    *)
(* inputs have at most two decimals and no exponent, and the numbers are   *)
(* far from the infinities.                                                *)
(***************************************************************************)
Finite(val) == [nan |-> FALSE, val |-> val]
NaN == [nan |-> TRUE, val |-> 0]

\* a + b on f64
F64Add(a, b) == IF a.nan \/ b.nan THEN NaN ELSE Finite(a.val + b.val)

\* a == b on f64: NaN is equal to nothing
F64Eq(a, b) == ~a.nan /\ ~b.nan /\ a.val = b.val

Digits == {"0", "1", "2", "3", "4", "5", "6", "7", "8", "9"}

DigitValue(c) == CHOOSE n \in 0..9 : ToString(n) = c

\* str::trim(), with the space as the whitespace of the inputs
RECURSIVE TrimStart(_)
TrimStart(s) == IF s # <<>> /\ Head(s) = " " THEN TrimStart(Tail(s)) ELSE s

RECURSIVE TrimEnd(_)
TrimEnd(s) == IF s # <<>> /\ s[Len(s)] = " " THEN TrimEnd(SubSeq(s, 1, Len(s) - 1)) ELSE s

Trim(s) == TrimEnd(TrimStart(s))

\* The value of a sequence of digits.
RECURSIVE Number(_)
Number(ds) ==
    IF ds = <<>> THEN 0
    ELSE Number(SubSeq(ds, 1, Len(ds) - 1)) * 10 + DigitValue(ds[Len(ds)])

\* A decimal numeral without sign: digits with at most one point and at
\* least one digit.
IsDecimal(u) ==
    /\ \A i \in 1..Len(u) : u[i] \in Digits \cup {"."}
    /\ Cardinality({i \in 1..Len(u) : u[i] = "."}) <= 1
    /\ \E i \in 1..Len(u) : u[i] \in Digits

\* The value of a decimal numeral, in hundredths.
Hundredths(u) ==
    LET points == {i \in 1..Len(u) : u[i] = "."}
        p == IF points = {} THEN Len(u) + 1 ELSE CHOOSE i \in points : TRUE
        frac == SubSeq(u, p + 1, Len(u)) \o <<"0", "0">>
    IN  Number(SubSeq(u, 1, p - 1)) * 100 + Number(SubSeq(frac, 1, 2))

\* str::parse::<f64>(): an optional sign, then "NaN" or a decimal numeral.
\* The result is [ok, value].
parse_f64(s) ==
    LET signed == s # <<>> /\ Head(s) \in {"+", "-"}
        u == IF signed THEN Tail(s) ELSE s
    IN  IF u = <<"N", "a", "N">> THEN [ok |-> TRUE, value |-> NaN]
        ELSE IF IsDecimal(u)
        THEN [ok |-> TRUE,
              value |-> Finite(IF signed /\ Head(s) = "-" THEN 0 - Hundredths(u) ELSE Hundredths(u))]
        ELSE [ok |-> FALSE, value |-> Finite(0)]

\* impl Bolt for SumBolt: fn execute(&mut self, input: &str)
SumBolt_execute(self, input) ==
    LET num == parse_f64(Trim(input))
    IN  IF num.ok
        THEN [self |-> [total |-> F64Add(self.total, num.value)],
              out  |-> <<<<"Sum: ", F64Add(self.total, num.value)>>>>]
        ELSE [self |-> self, out |-> <<<<"Invalid number">>>>]

(***************************************************************************)
(* OctoTree::add_task: self.tasks.insert(task.id.clone(), task).           *)
(***************************************************************************)
\* Mutant: the entry API, which keeps the task already stored under the id.
Insert_KeepFirst(ts, task) ==
    [i \in DOMAIN ts \cup {task.id} |-> IF i \in DOMAIN ts THEN ts[i] ELSE task]

\* Mutant: the task is stored under its name.
Insert_ByName(ts, task) ==
    [i \in DOMAIN ts \cup {task.name} |-> IF i = task.name THEN task ELSE ts[i]]

\* Mutant: a task is stored only when its dependencies are already tasks.
Insert_NeedsDeps(ts, task) ==
    IF \A k \in 1..Len(task.dependencies) : task.dependencies[k] \in DOMAIN ts
    THEN [i \in DOMAIN ts \cup {task.id} |-> IF i = task.id THEN task ELSE ts[i]]
    ELSE ts

Insert(ts, task) ==
    [i \in DOMAIN ts \cup {task.id} |-> IF i = task.id THEN task ELSE ts[i]]

\* The map after the first n add_task calls of the sequence calls, from
\* OctoTree::new().
RECURSIVE Build(_, _)
Build(calls, n) ==
    IF n = 0 THEN EmptyMap ELSE Insert(Build(calls, n - 1), calls[n])

(***************************************************************************)
(* OctoTree::topological_sort.                                             *)
(***************************************************************************)
CycleError == <<"Cycle", "detected", "in", "DAG">>

Ok(order, time) == [ok |-> TRUE, order |-> order, max_time |-> time, err |-> <<>>, text |-> <<>>]
Err(msg) == [ok |-> FALSE, order |-> <<>>, max_time |-> 0, err |-> msg, text |-> <<>>]
Unit == [ok |-> TRUE, order |-> <<>>, max_time |-> 0, err |-> <<>>, text |-> <<>>]
Text(t) == [ok |-> TRUE, order |-> <<>>, max_time |-> 0, err |-> <<>>, text |-> t]

\* Mutant: the edge is recorded from the task to its dependency.
AdjPush_Reversed(adj, dep, id) ==
    [d \in DOMAIN adj \cup {id} |->
        IF d = id THEN (IF d \in DOMAIN adj THEN Append(adj[d], dep) ELSE <<dep>>)
        ELSE adj[d]]

\* Mutant: the entries under a dependency are a set: an id that is already
\* there is not pushed again.
AdjPush_Unique(adj, dep, id) ==
    [d \in DOMAIN adj \cup {dep} |->
        IF d = dep
        THEN (IF d \in DOMAIN adj
              THEN (IF id \in Range(adj[d]) THEN adj[d] ELSE Append(adj[d], id))
              ELSE <<id>>)
        ELSE adj[d]]

\* adj_list.entry(dep.clone()).or_default().push(id.clone())
AdjPush(adj, dep, id) ==
    [d \in DOMAIN adj \cup {dep} |->
        IF d = dep THEN (IF d \in DOMAIN adj THEN Append(adj[d], id) ELSE <<id>>)
        ELSE adj[d]]

\* for dep in &task.dependencies { ... }, from the k-th dependency on
RECURSIVE AdjOfDeps(_, _, _, _)
AdjOfDeps(adj, deps, id, k) ==
    IF k > Len(deps) THEN adj
    ELSE AdjOfDeps(AdjPush(adj, deps[k], id), deps, id, k + 1)

\* Mutant: a task starts with in-degree 0 whatever it depends on.
InDegreeInsert_Zero(deg, id, n) ==
    [i \in DOMAIN deg \cup {id} |-> IF i = id THEN 0 ELSE deg[i]]

\* in_degree.insert(id.clone(), task.dependencies.len())
InDegreeInsert(deg, id, n) ==
    [i \in DOMAIN deg \cup {id} |-> IF i = id THEN n ELSE deg[i]]

\* Mutant: every dependency id gets a counter too
\* (in_degree.entry(dep.clone()).or_insert(0)).
RECURSIVE Initialize_DepsCounted(_, _, _, _)
Initialize_DepsCounted(ts, order, k, st) ==
    IF k > Len(order) THEN st
    ELSE LET id == order[k]
             task == ts[id]
             deg == InDegreeInsert(st.in_degree, id, Len(task.dependencies))
         IN  Initialize_DepsCounted(ts, order, k + 1,
                 [in_degree |-> [i \in DOMAIN deg \cup Range(task.dependencies) |->
                                    IF i \in DOMAIN deg THEN deg[i] ELSE 0],
                  adj_list  |-> AdjOfDeps(st.adj_list, task.dependencies, id, 1)])

\* Mutant: the in-degree counts only the dependencies that are tasks.
RECURSIVE Initialize_ValidOnly(_, _, _, _)
Initialize_ValidOnly(ts, order, k, st) ==
    IF k > Len(order) THEN st
    ELSE LET id == order[k]
             task == ts[id]
             valid == SelectSeq(task.dependencies, LAMBDA d : d \in DOMAIN ts)
         IN  Initialize_ValidOnly(ts, order, k + 1,
                 [in_degree |-> InDegreeInsert(st.in_degree, id, Len(valid)),
                  adj_list  |-> AdjOfDeps(st.adj_list, task.dependencies, id, 1)])

\* for (id, task) in &self.tasks { ... }: the tasks are visited in the order
\* `order`, from its k-th element on.  st = [in_degree, adj_list].
RECURSIVE Initialize(_, _, _, _)
Initialize(ts, order, k, st) ==
    IF k > Len(order) THEN st
    ELSE LET id == order[k]
             task == ts[id]
         IN  Initialize(ts, order, k + 1,
                 [in_degree |-> InDegreeInsert(st.in_degree, id, Len(task.dependencies)),
                  adj_list  |-> AdjOfDeps(st.adj_list, task.dependencies, id, 1)])

\* Mutant: in_degree is a BTreeMap, which is iterated in the order of the ids.
SeedQueue_Sorted(in_degree, order) ==
    SelectSeq(<<"A", "B", "C">>, LAMBDA id : id \in DOMAIN in_degree /\ in_degree[id] = 0)

\* Mutant: the loop over in_degree ends at the first task of in-degree 0.
SeedQueue_First(in_degree, order) ==
    LET ready == SelectSeq(order, LAMBDA id : in_degree[id] = 0)
    IN  IF ready = <<>> THEN ready ELSE <<ready[1]>>

\* Mutant: every task is put on the queue, whatever its in-degree.
SeedQueue_All(in_degree, order) == order

\* for (id, &degree) in &in_degree { if degree == 0 { queue.push_back(id) } }
SeedQueue(in_degree, order) ==
    SelectSeq(order, LAMBDA id : in_degree[id] = 0)

\* for neighbor in neighbors { ... }, from the k-th neighbor on.
\* st = [in_degree, queue, result, underflow].  in_degree is a usize: a
\* decrement at 0 overflows (a panic in a debug build, a wrap to usize::MAX
\* in a release build); it is recorded in st.underflow, and the wrapped
\* counter, which is not 0, is written as a negative number.
RECURSIVE Relax(_, _, _)
Relax(st, neighbors, k) ==
    IF k > Len(neighbors) THEN st
    ELSE LET neighbor == neighbors[k]
         IN  IF neighbor \in DOMAIN st.in_degree
             THEN LET old == st.in_degree[neighbor]
                      degree == old - 1
                      st1 == [st EXCEPT !.in_degree[neighbor] = degree,
                                        !.underflow = st.underflow \/ old = 0,
                                        !.queue = IF degree = 0 THEN Append(st.queue, neighbor)
                                                  ELSE st.queue]
                  IN  Relax(st1, neighbors, k + 1)
             ELSE Relax(st, neighbors, k + 1)

\* Mutant: result.insert(0, task_id) in the place of result.push(task_id).
RECURSIVE Kahn_Prepend(_, _)
Kahn_Prepend(st, adj_list) ==
    IF st.queue = <<>> THEN st
    ELSE LET task_id == Head(st.queue)
             st1 == [st EXCEPT !.queue = Tail(st.queue),
                               !.result = <<task_id>> \o st.result]
         IN  IF task_id \in DOMAIN adj_list
             THEN Kahn_Prepend(Relax(st1, adj_list[task_id], 1), adj_list)
             ELSE Kahn_Prepend(st1, adj_list)

\* Mutant: queue.pop_back() in the place of queue.pop_front().
PopFront_Stack(st, adj_list) ==
    LET task_id == st.queue[Len(st.queue)]
        st1 == [st EXCEPT !.queue = SubSeq(st.queue, 1, Len(st.queue) - 1),
                          !.result = Append(st.result, task_id)]
    IN  IF task_id \in DOMAIN adj_list
        THEN Relax(st1, adj_list[task_id], 1)
        ELSE st1

\* One iteration of the while loop, on a queue that is not empty.
PopFront(st, adj_list) ==
    LET task_id == Head(st.queue)
        st1 == [st EXCEPT !.queue = Tail(st.queue),
                          !.result = Append(st.result, task_id)]
    IN  IF task_id \in DOMAIN adj_list
        THEN Relax(st1, adj_list[task_id], 1)
        ELSE st1

\* while let Some(task_id) = queue.pop_front() { ... }
RECURSIVE Kahn(_, _)
Kahn(st, adj_list) ==
    IF st.queue = <<>> THEN st ELSE Kahn(PopFront(st, adj_list), adj_list)

\* Mutant: an empty result is reported as a cycle.
TopoReturn_EmptyIsErr(res, ts) ==
    IF res = <<>> \/ Len(res) # Cardinality(DOMAIN ts) THEN Err(CycleError) ELSE Ok(res, 0)

\* Mutant: the ordered part is returned as Ok whatever its length.
TopoReturn_Silent(res, ts) == Ok(res, 0)

\* Mutant: the error carries the ids ordered so far.
TopoReturn_Partial(res, ts) ==
    IF Len(res) # Cardinality(DOMAIN ts) THEN [Err(CycleError) EXCEPT !.order = res] ELSE Ok(res, 0)

\* if result.len() != self.tasks.len() { Err(..) } else { Ok(result) }
TopoReturn(res, ts) ==
    IF Len(res) # Cardinality(DOMAIN ts) THEN Err(CycleError) ELSE Ok(res, 0)

\* Mutant: `result` is kept between the calls (a field in the place of the
\* local variable), so that a run appends to what the last run left.
topological_sort_Stale(ts, o1, o2) ==
    LET init  == Initialize(ts, o1, 1, [in_degree |-> EmptyMap, adj_list |-> EmptyMap])
        queue == SeedQueue(init.in_degree, o2)
        final == Kahn([in_degree |-> init.in_degree, queue |-> queue,
                       result |-> result, underflow |-> FALSE], init.adj_list)
    IN  [ret |-> TopoReturn(final.result, ts), result |-> final.result,
         in_degree |-> final.in_degree, adj_list |-> init.adj_list,
         underflow |-> final.underflow]

\* One run of topological_sort on the task map ts, where the loop over
\* self.tasks runs in the order o1 and the loop over in_degree in the order
\* o2.  The run is returned with its final local variables.
topological_sort(ts, o1, o2) ==
    LET init  == Initialize(ts, o1, 1, [in_degree |-> EmptyMap, adj_list |-> EmptyMap])
        queue == SeedQueue(init.in_degree, o2)
        final == Kahn([in_degree |-> init.in_degree, queue |-> queue,
                       result |-> <<>>, underflow |-> FALSE], init.adj_list)
    IN  [ret |-> TopoReturn(final.result, ts), result |-> final.result,
         in_degree |-> final.in_degree, adj_list |-> init.adj_list,
         underflow |-> final.underflow]

(***************************************************************************)
(* OctoTree::critical_path.                                                *)
(***************************************************************************)
\* Mutant: the finish time of the task (the start plus its duration) is stored.
MaxDepFinish_AddDuration(task, earliest_start) ==
    task.duration + MaxOr0({earliest_start[task.dependencies[j]] :
              j \in {i \in 1..Len(task.dependencies) : task.dependencies[i] \in DOMAIN earliest_start}})

\* task.dependencies.iter().filter_map(|dep| earliest_start.get(dep)).max().unwrap_or(&0)
MaxDepFinish(task, earliest_start) ==
    MaxOr0({earliest_start[task.dependencies[j]] :
              j \in {i \in 1..Len(task.dependencies) : task.dependencies[i] \in DOMAIN earliest_start}})

\* for task_id in &topo_order { ... }, from the k-th id on
RECURSIVE EarliestStart(_, _, _, _)
EarliestStart(ts, topo_order, k, earliest_start) ==
    IF k > Len(topo_order) THEN earliest_start
    ELSE LET task_id == topo_order[k]
         IN  IF task_id \in DOMAIN ts
             THEN EarliestStart(ts, topo_order, k + 1,
                      [i \in DOMAIN earliest_start \cup {task_id} |->
                          IF i = task_id THEN MaxDepFinish(ts[task_id], earliest_start)
                          ELSE earliest_start[i]])
             ELSE EarliestStart(ts, topo_order, k + 1, earliest_start)

\* The part of critical_path after `let topo_order = self.topological_sort()?`
CriticalOf(ts, topo_order) ==
    LET earliest_start == EarliestStart(ts, topo_order, 1, EmptyMap)
        max_time == MaxOr0({earliest_start[i] : i \in DOMAIN earliest_start})
        critical_tasks == SelectSeq(topo_order,
            LAMBDA id : (IF id \in DOMAIN earliest_start THEN earliest_start[id] ELSE 0) = max_time)
    IN  Ok(critical_tasks, max_time)

\* Mutant: the error of topological_sort is swallowed (unwrap_or_default
\* in the place of `?`).
CriticalFrom_Swallow(ts, topo) ==
    [ret |-> CriticalOf(ts, topo.ret.order), result |-> topo.result]

\* let topo_order = self.topological_sort()?; ...: critical_path, given the
\* run of its topological_sort call.
CriticalFrom(ts, topo) ==
    [ret |-> IF topo.ret.ok THEN CriticalOf(ts, topo.ret.order) ELSE topo.ret,
     result |-> topo.result]

\* One run of critical_path, with the iteration orders of its
\* topological_sort call.
critical_path(ts, o1, o2) == CriticalFrom(ts, topological_sort(ts, o1, o2))

(***************************************************************************)
(* OctoTree::display: format!("OCTOTREÉ: {} tasks", self.tasks.len()).     *)
(***************************************************************************)
display(ts) == <<"OCTOTREÉ:", Cardinality(DOMAIN ts), "tasks">>

(***************************************************************************)
(* The state machine.  tasks is the field OctoTree.tasks; op and ret are   *)
(* the last operation called and what it returned; result is the local     *)
(* variable `result` of the last topological_sort run when it returned.    *)
(* arg is the argument of the last counted add_task call; lastAdded,       *)
(* numCalls and added record the add_task calls made so far.               *)
(***************************************************************************)
\* Number of dependency entries of the tasks of a graph other than id.
EdgesExcept(ts, id) == SumLens(ts, DOMAIN ts \ {id})

\* The tasks that are passed to add_task in the state at hand: ids,
\* dependency ids, names and durations from the given sets, and a dependency
\* list that keeps the graph within MaxEdges dependency entries.
TaskInputs(ids, depIds, names, durations) ==
    UNION {{Task(id, name, duration, deps) :
                name \in names, duration \in durations,
                deps \in SeqsUpTo(depIds, MaxEdges - EdgesExcept(tasks, id))} : id \in ids}

NoArg == Task("", "", 0, <<>>)

\* No topological_sort run is in progress.
Idle == [pc |-> "idle", in_degree |-> EmptyMap, adj_list |-> EmptyMap,
         queue |-> <<>>, result |-> <<>>, underflow |-> FALSE]

\* KeyBounceBolt::new() and SumBolt::new().  An Option<String> is written as
\* a sequence of length 0 (None) or 1 (Some).
KeyBounceBolt_new == [last_key |-> <<>>, bounce_count |-> 0]
SumBolt_new == [total |-> Finite(0)]

\* OctoTree::new()
Init ==
    /\ tasks = EmptyMap
    /\ op = "new"
    /\ ret = Unit
    /\ result = <<>>
    /\ arg = NoArg
    /\ lastAdded = EmptyMap
    /\ numCalls = 0
    /\ added = <<>>
    /\ phase = "fresh"
    /\ locals = Idle
    /\ key_bounce = KeyBounceBolt_new
    /\ sum = SumBolt_new
    /\ history = <<>>

\* tree.add_task(task); lastAdded remembers the argument of the call.
add_task(task) ==
    /\ tasks' = Insert(tasks, task)
    /\ op' = "add_task"
    /\ ret' = Unit
    /\ result' = <<>>
    /\ lastAdded' = (task.id :> task) @@ lastAdded
    /\ UNCHANGED beside

\* Mutant: the tasks are taken out of the map as they are ordered.
SortCall_Drains ==
    \E o1, o2 \in Perms(DOMAIN tasks) :
        LET run == topological_sort(tasks, o1, o2)
        IN  /\ op' = "topological_sort"
            /\ ret' = run.ret
            /\ result' = run.result
            /\ tasks' = [i \in DOMAIN tasks \ Range(run.result) |-> tasks[i]]
            /\ UNCHANGED <<arg, lastAdded, numCalls, added>>
            /\ UNCHANGED beside

\* tree.topological_sort(), a method on &self.
SortCall ==
    \E o1, o2 \in Perms(DOMAIN tasks) :
        LET run == topological_sort(tasks, o1, o2)
        IN  /\ op' = "topological_sort"
            /\ ret' = run.ret
            /\ result' = run.result
            /\ UNCHANGED <<tasks, arg, lastAdded, numCalls, added>>
            /\ UNCHANGED beside

TopologicalSort == SortCall /\ UNCHANGED phase

\* tree.critical_path(), a method on &self.
CriticalCall ==
    \E o1, o2 \in Perms(DOMAIN tasks) :
        LET run == critical_path(tasks, o1, o2)
        IN  /\ op' = "critical_path"
            /\ ret' = run.ret
            /\ result' = run.result
            /\ UNCHANGED <<tasks, arg, lastAdded, numCalls, added>>
            /\ UNCHANGED beside

CriticalPath == CriticalCall /\ UNCHANGED phase

\* tree.display()
Display ==
    /\ op' = "display"
    /\ ret' = Text(display(tasks))
    /\ result' = <<>>
    /\ UNCHANGED <<tasks, arg, lastAdded, numCalls, added, phase>>
    /\ UNCHANGED beside

AddTask == \E task \in TaskInputs(Ids, DepIds, SortNames, SortDurations) : add_task(task) /\ UNCHANGED <<arg, numCalls, added, phase>>

Next == AddTask \/ TopologicalSort \/ CriticalPath

Spec == Init /\ [][Next]_vars

(***************************************************************************)
(* Sequences of add_task calls, counted: a graph is built from empty by at *)
(* most MaxAdds calls, and display is called at any point.  The ids        *)
(* include the empty string.                                               *)
(***************************************************************************)
IdsAdd == {"", "A"}

AddTaskCounted ==
    \E task \in TaskInputs(IdsAdd, IdsAdd \cup {"ghost"}, Names, Durations) :
        /\ numCalls < MaxAdds
        /\ add_task(task)
        /\ arg' = task
        /\ numCalls' = numCalls + 1
        /\ UNCHANGED <<added, phase>>

NextAdd == AddTaskCounted \/ Display

SpecAdd == Init /\ [][NextAdd]_vars

(***************************************************************************)
(* Tasks with pairwise distinct ids inserted in some order; added is the   *)
(* sequence of the calls.                                                  *)
(***************************************************************************)
AddTaskFresh ==
    \E task \in TaskInputs(Ids, Ids, SortNames, SortDurations) :
        /\ task.id \notin DOMAIN tasks
        /\ add_task(task)
        /\ added' = Append(added, task)
        /\ UNCHANGED <<arg, numCalls, phase>>

NextOrder == AddTaskFresh

SpecOrder == Init /\ [][NextOrder]_vars

(***************************************************************************)
(* TradingWorkflow of src/src/trading_dag.rs and the A-DAG screen of       *)
(* src/src/main.rs.  tasks is the map of the field dag, an OctoTree: the   *)
(* one that TradingWorkflow::new() builds, or one built by add_task calls  *)
(* as the tests of adag.rs do.  The writer passed to draw_content does not *)
(* fail.                                                                   *)
(***************************************************************************)
PipelineTasks ==
    <<Task("fetch_data", "Fetch Market Data", 2, <<>>),
      Task("calculate_indicators", "Calculate Technical Indicators", 3, <<"fetch_data">>),
      Task("generate_signals", "Generate Trading Signals", 2, <<"calculate_indicators">>),
      Task("risk_check", "Risk Management Check", 1, <<"generate_signals">>),
      Task("execute_trades", "Execute Trades", 2, <<"risk_check">>)>>

\* The field dag after TradingWorkflow::new().
TradingWorkflow_new == Build(PipelineTasks, Len(PipelineTasks))

InitWorkflow ==
    /\ tasks \in {EmptyMap, TradingWorkflow_new}
    /\ lastAdded = tasks
    /\ op = "new"
    /\ ret = Unit
    /\ result = <<>>
    /\ arg = NoArg
    /\ numCalls = 0
    /\ added = <<>>
    /\ phase = "fresh"
    /\ locals = Idle
    /\ key_bounce = KeyBounceBolt_new
    /\ sum = SumBolt_new
    /\ history = <<>>

\* dag.add_task(task), on a tree under construction; a TradingWorkflow has
\* no method that adds a task.
AddTaskToDag ==
    /\ DOMAIN tasks \subseteq Ids
    /\ \E task \in TaskInputs(Ids, Ids, SortNames, SortDurations) :
           /\ add_task(task)
           /\ UNCHANGED <<arg, numCalls, added, phase>>

\* workflow.get_execution_order(): self.dag.topological_sort()
GetExecutionOrder == SortCall /\ UNCHANGED phase

\* format!("  {}. {}\n", i + 1, task), for the item (i, task) of enumerate()
TaskLine(i, task) == <<"  ", i + 1, ". ", task>>

\* The lines that draw_content queues before the task lines when the
\* selected menu item is ADAG, given what display() returns.  The
\* box-drawing character of the first line is written as "=".
Heading(shown) ==
    <<<<"===============================================================================">>,
      <<"A-DAG (ACYCLIC DIRECTED ACYCLIC GRAPH)">>,
      shown,
      <<"Trading Workflow:">>>>

\* Mutant: get_execution_order().unwrap() in the place of `if let Ok(order)`;
\* the call panics on Err.
draw_content_Unwrap(shown, order) ==
    IF order.ok
    THEN Text(Heading(shown) \o [k \in 1..Len(order.order) |-> TaskLine(k - 1, order.order[k])])
    ELSE [Err(<<"panicked">>) EXCEPT !.text = Heading(shown)]

\* What draw_content returns, with the lines it has queued, given what
\* display() and get_execution_order() return.
draw_content(shown, order) ==
    Text(Heading(shown)
         \o (IF order.ok THEN [k \in 1..Len(order.order) |-> TaskLine(k - 1, order.order[k])]
             ELSE <<>>))

\* draw_content(stdout, app) with app.selected_menu_item = MenuItem::ADAG;
\* ret is what the call returns, with the lines queued on stdout.
DrawContent ==
    \E o1, o2 \in Perms(DOMAIN tasks) :
        LET run == topological_sort(tasks, o1, o2)
        IN  /\ op' = "draw_content"
            /\ ret' = draw_content(display(tasks), run.ret)
            /\ result' = run.result
            /\ UNCHANGED <<tasks, arg, lastAdded, numCalls, added, phase>>
            /\ UNCHANGED beside

NextWorkflow == AddTaskToDag \/ GetExecutionOrder \/ DrawContent

SpecWorkflow == InitWorkflow /\ [][NextWorkflow]_vars

(***************************************************************************)
(* Graphs whose tasks differ in name or in duration: a task is added with  *)
(* the name or with the duration of the tasks of Spec, and the other of    *)
(* the two from Names or Durations, under an id that is not yet a task.    *)
(***************************************************************************)
AddTaskLabelled ==
    \E task \in TaskInputs(Ids \ DOMAIN tasks, Ids, Names, Durations) :
        /\ task.name \in SortNames \/ task.duration \in SortDurations
        /\ add_task(task)
        /\ UNCHANGED <<arg, numCalls, added, phase>>

NextLabels == AddTaskLabelled

SpecLabels == Init /\ [][NextLabels]_vars

(***************************************************************************)
(* topological_sort step by step.  locals holds the local variables of the *)
(* run in progress and the place the run has reached: "seed" before the    *)
(* loop over in_degree, "loop" at the head of the while loop.  The call    *)
(* borrows the tree, so add_task is called only when no run is in          *)
(* progress.  op, ret and result change when the call returns.             *)
(***************************************************************************)
AddTaskIdle ==
    /\ locals.pc = "idle"
    /\ \E task \in TaskInputs(Ids, DepIds, SortNames, SortDurations) :
           /\ add_task(task)
           /\ UNCHANGED <<arg, numCalls, added, phase>>

stepFrame == <<tasks, op, arg, ret, result, lastAdded, numCalls, added, phase, key_bounce, sum, history>>

\* let mut in_degree ..; let mut adj_list ..; for (id, task) in &self.tasks { ... }
SortInitialize ==
    /\ locals.pc = "idle"
    /\ \E o1 \in Perms(DOMAIN tasks) :
           LET init == Initialize(tasks, o1, 1, [in_degree |-> EmptyMap, adj_list |-> EmptyMap])
           IN  locals' = [Idle EXCEPT !.pc = "seed", !.in_degree = init.in_degree,
                                      !.adj_list = init.adj_list]
    /\ UNCHANGED stepFrame

\* let mut queue ..; let mut result ..; for (id, &degree) in &in_degree { ... }
SortSeed ==
    /\ locals.pc = "seed"
    /\ \E o2 \in Perms(DOMAIN locals.in_degree) :
           locals' = [locals EXCEPT !.pc = "loop", !.queue = SeedQueue(locals.in_degree, o2)]
    /\ UNCHANGED stepFrame

\* One iteration of while let Some(task_id) = queue.pop_front() { ... }
SortPopFront ==
    /\ locals.pc = "loop"
    /\ locals.queue # <<>>
    /\ LET st == PopFront([in_degree |-> locals.in_degree, queue |-> locals.queue,
                           result |-> locals.result, underflow |-> locals.underflow],
                          locals.adj_list)
       IN  locals' = [locals EXCEPT !.in_degree = st.in_degree, !.queue = st.queue,
                                    !.result = st.result, !.underflow = st.underflow]
    /\ UNCHANGED stepFrame

\* queue.pop_front() is None: the loop ends and the call returns.
SortReturn ==
    /\ locals.pc = "loop"
    /\ locals.queue = <<>>
    /\ op' = "topological_sort"
    /\ ret' = TopoReturn(locals.result, tasks)
    /\ result' = locals.result
    /\ locals' = Idle
    /\ UNCHANGED <<tasks, arg, lastAdded, numCalls, added, phase, key_bounce, sum, history>>

SortStep == SortSeed \/ SortPopFront \/ SortReturn

NextSteps == AddTaskIdle \/ SortInitialize \/ SortSeed \/ SortPopFront \/ SortReturn

SpecSteps == Init /\ [][NextSteps]_vars

\* A call that has started keeps running: the thread that runs it is not
\* stopped by anything in the program.
SpecStepsFair == SpecSteps /\ WF_vars(SortStep)

(***************************************************************************)
(* A KeyBounceBolt that is sent up to MaxKeys keys.  history is the        *)
(* sequence of the calls, each with its input and its output.              *)
(***************************************************************************)
Keys == {"A", "B", "C"}

\* What the calls on a bolt leave alone.
treeVars == <<tasks, arg, result, lastAdded, numCalls, added, phase, locals>>

\* bolt.execute(key)
KeyBounceExecute ==
    /\ Len(history) < MaxKeys
    /\ \E key \in Keys :
           LET call == KeyBounceBolt_execute(key_bounce, key)
           IN  /\ key_bounce' = call.self
               /\ history' = Append(history, [input |-> key, output |-> call.out])
               /\ op' = "execute"
               /\ ret' = Text(call.out)
    /\ UNCHANGED treeVars
    /\ UNCHANGED sum

NextKeyBounce == KeyBounceExecute

SpecKeyBounce == Init /\ [][NextKeyBounce]_vars

(***************************************************************************)
(* A SumBolt that is sent up to MaxInputs inputs: the strings of           *)
(* test_storm_error_handling, a number between spaces, a negative number,  *)
(* the empty string and "NaN".  history holds, for each call, the input,   *)
(* the output and the total after the call.                                *)
(***************************************************************************)
SumInputs ==
    {<<"4", "2", ".", "5">>,
     <<"n", "o", "t", "_", "a", "_", "n", "u", "m", "b", "e", "r">>,
     <<" ", "7", " ">>,
     <<"-", "1", ".", "5">>,
     <<>>,
     <<"N", "a", "N">>}

\* bolt.execute(input)
SumExecute ==
    /\ Len(history) < MaxInputs
    /\ \E input \in SumInputs :
           LET call == SumBolt_execute(sum, input)
           IN  /\ sum' = call.self
               /\ history' = Append(history, [input |-> input, output |-> call.out,
                                              total |-> call.self.total])
               /\ op' = "execute"
               /\ ret' = Text(call.out)
    /\ UNCHANGED treeVars
    /\ UNCHANGED key_bounce

NextSum == SumExecute

SpecSum == Init /\ [][NextSum]_vars

(***************************************************************************)
(* The graphs alone: each task is added once, under an id that is not yet  *)
(* a task, with dependencies on tasks, on itself or on "ghost".            *)
(***************************************************************************)
AddTaskNew ==
    \E task \in TaskInputs(Ids \ DOMAIN tasks, DepIds, SortNames, SortDurations) :
        /\ add_task(task)
        /\ UNCHANGED <<arg, numCalls, added, phase>>

NextGraphs == AddTaskNew

SpecGraphs == Init /\ [][NextGraphs]_vars

(***************************************************************************)
(* Queries interleaved with additions.  phase follows the calls made so    *)
(* far: "fresh" until the first query, "queried" after a query, "modified" *)
(* after an add_task call that follows a query, and "requeried" from the   *)
(* first query that follows such an add_task call.                         *)
(***************************************************************************)
AfterQuery(p) == IF p \in {"fresh", "queried"} THEN "queried" ELSE "requeried"

AfterAdd(p) == IF p = "queried" THEN "modified" ELSE p

AddTaskBetween ==
    \E task \in TaskInputs(Ids, Ids, SortNames, SortDurations) :
        /\ add_task(task)
        /\ phase' = AfterAdd(phase)
        /\ UNCHANGED <<arg, numCalls, added>>

SortAgain == SortCall /\ phase' = AfterQuery(phase)

CriticalAgain == CriticalCall /\ phase' = AfterQuery(phase)

NextRepeat == AddTaskBetween \/ SortAgain \/ CriticalAgain

SpecRepeat == Init /\ [][NextRepeat]_vars

(***************************************************************************)
(* Vocabulary of the properties.                                           *)
(***************************************************************************)
\* The tasks of ts that task i lists as dependencies.
DepsOf(ts, i) == {j \in DOMAIN ts : j \in Range(ts[i].dependencies)}

RECURSIVE Closure(_, _)
Closure(ts, S) ==
    LET next == S \cup UNION {DepsOf(ts, i) : i \in S}
    IN  IF next = S THEN S ELSE Closure(ts, next)

\* The tasks that i depends on, directly or through other tasks.
Below(ts, i) == Closure(ts, DepsOf(ts, i))

\* The dependency relation among the tasks has a cycle.
HasCycle(ts) == \E i \in DOMAIN ts : i \in Below(ts, i)

\* Task i lists an id that is not a task of the graph.
ListsGhost(ts, i) == \E d \in Range(ts[i].dependencies) : d \notin DOMAIN ts

HasGhost(ts) == \E i \in DOMAIN ts : ListsGhost(ts, i)

\* seq holds every element of S exactly once.
IsPermutationOf(seq, S) == Len(seq) = Cardinality(S) /\ Range(seq) = S

\* In order, every dependency of a task that is a task comes before it.
DepsFirst(ts, order) ==
    \A k \in 1..Len(order) :
        order[k] \in DOMAIN ts =>
            \A d \in DepsOf(ts, order[k]) : \E j \in 1..(k - 1) : order[j] = d

\* What the calls can return on ts, over the iteration orders of its maps.
TopoRuns(ts) ==
    {topological_sort(ts, o1, o2) : o1 \in Perms(DOMAIN ts), o2 \in Perms(DOMAIN ts)}

TopoOutcomes(ts) == {run.ret : run \in TopoRuns(ts)}

CriticalOutcomes(ts) == {CriticalFrom(ts, run).ret : run \in TopoRuns(ts)}

(***************************************************************************)
(* Properties of topological_sort.                                         *)
(***************************************************************************)
\* C1 as stated: on every graph without a dependency cycle topological_sort
\* returns Ok with every task id exactly once and every dependency that
\* exists in the graph before the task that lists it.
C1_AcyclicSorted ==
    (op = "topological_sort" /\ ~HasCycle(tasks)) =>
        /\ ret.ok
        /\ IsPermutationOf(ret.order, DOMAIN tasks)
        /\ DepsFirst(tasks, ret.order)

\* C1 amended: on every graph without a dependency cycle in which every
\* listed dependency id is a task of the graph, topological_sort returns Ok
\* with every task id exactly once and every dependency before the task that
\* lists it.
C1_AcyclicResolvedSorted ==
    (op = "topological_sort" /\ ~HasCycle(tasks) /\ ~HasGhost(tasks)) =>
        /\ ret.ok
        /\ IsPermutationOf(ret.order, DOMAIN tasks)
        /\ DepsFirst(tasks, ret.order)

\* A sort of three tasks returned, one of which lists the two others.
C1_Witness ==
    /\ op = "topological_sort"
    /\ ~HasCycle(tasks) /\ ~HasGhost(tasks)
    /\ Cardinality(DOMAIN tasks) = 3
    /\ \E i \in DOMAIN tasks : Cardinality(DepsOf(tasks, i)) = 2
    /\ ret.ok

\* C2: on every graph with a dependency cycle (two tasks, more, or a task
\* that lists itself) topological_sort returns Err with a message that
\* contains the word "Cycle", never Ok.
C2_CycleIsError ==
    (op = "topological_sort" /\ HasCycle(tasks)) =>
        /\ ~ret.ok
        /\ "Cycle" \in Range(ret.err)

\* A sort returned on the cycle of three tasks.
C2_Witness ==
    /\ op = "topological_sort"
    /\ Cardinality(DOMAIN tasks) = 3
    /\ \A i \in DOMAIN tasks : Below(tasks, i) = DOMAIN tasks /\ Len(tasks[i].dependencies) = 1
    /\ ~ret.ok

\* C3: if a task lists an id that is not a task of the graph,
\* topological_sort returns the cycle error.
C3_GhostIsCycleError ==
    (op = "topological_sort" /\ HasGhost(tasks)) => ret = Err(CycleError)

\* A sort returned on the graph that holds only A, which lists "ghost".
C3_Witness ==
    /\ op = "topological_sort"
    /\ DOMAIN tasks = {"A"}
    /\ tasks["A"].dependencies = <<"ghost">>
    /\ ret = Err(CycleError)

\* C4 as stated: on a graph without a dependency cycle in which a task lists
\* an id that is not a task, topological_sort returns Ok with an order of all
\* the tasks.
C4_GhostDoesNotBlock ==
    (op = "topological_sort" /\ ~HasCycle(tasks) /\ HasGhost(tasks)) =>
        ret.ok /\ IsPermutationOf(ret.order, DOMAIN tasks)

\* C4 amended: a dependency on an id that is not a task is counted in the
\* in-degree and blocks sorting: on a graph without a dependency cycle in
\* which a task lists such an id, no task that lists one is ordered, and
\* topological_sort does not return Ok.
C4_GhostBlocks ==
    (op = "topological_sort" /\ ~HasCycle(tasks) /\ HasGhost(tasks)) =>
        /\ \A i \in DOMAIN tasks : ListsGhost(tasks, i) => i \notin Range(result)
        /\ ~ret.ok

\* A sort returned on a graph where one task lists "ghost" and another task,
\* which lists nothing, was ordered.
C4_Witness ==
    /\ op = "topological_sort"
    /\ ~HasCycle(tasks)
    /\ \E i \in DOMAIN tasks : "ghost" \in Range(tasks[i].dependencies)
    /\ result # <<>>
    /\ ~ret.ok

(***************************************************************************)
(* Properties of critical_path.                                            *)
(***************************************************************************)
\* C5: on every graph on which topological_sort can return Ok, critical_path
\* returns Ok with max_time 0 and a critical task list that holds every task
\* id of the graph exactly once.
C5_FlatZero ==
    (op = "critical_path" /\ \E t \in TopoOutcomes(tasks) : t.ok) =>
        /\ ret.ok
        /\ ret.max_time = 0
        /\ IsPermutationOf(ret.order, DOMAIN tasks)

\* critical_path returned Ok on a chain of three tasks.
C5_Witness ==
    /\ op = "critical_path"
    /\ ret.ok
    /\ Cardinality(DOMAIN tasks) = 3
    /\ \E i \in DOMAIN tasks : Cardinality(Below(tasks, i)) = 2
    /\ \E i \in DOMAIN tasks : Cardinality(Below(tasks, i)) = 1

\* C6: critical_path returns Err exactly when topological_sort returns Err on
\* the same graph, and then the same error value.
C6_CriticalErrIffSortErr ==
    op = "critical_path" =>
        \A t \in TopoOutcomes(tasks) :
            /\ ret.ok <=> t.ok
            /\ ~ret.ok => ret = t

\* critical_path returned Err.
C6_Witness ==
    /\ op = "critical_path"
    /\ ~ret.ok
    /\ tasks # EmptyMap

\* C7: topological_sort returns Err exactly when the number of ids it ordered
\* differs from the number of tasks; the error is one fixed value that holds
\* no ids, and an Ok result has as many entries as the graph has tasks.
C7_ErrIffShort ==
    op = "topological_sort" =>
        /\ ~ret.ok <=> Len(result) # Cardinality(DOMAIN tasks)
        /\ ~ret.ok => ret = Err(CycleError) /\ ret.order = <<>>
        /\ ret.ok => ret.order = result /\ Len(ret.order) = Cardinality(DOMAIN tasks)

\* A sort returned Err after it had ordered some of the tasks.
C7_Witness ==
    /\ op = "topological_sort"
    /\ ~ret.ok
    /\ result # <<>>
    /\ Len(result) < Cardinality(DOMAIN tasks)

(***************************************************************************)
(* Properties of add_task and display.                                     *)
(***************************************************************************)
\* C8: after any sequence of add_task calls from the empty graph, the graph
\* holds one task per distinct id added, the one passed to the most recent
\* call with that id, and display reports the number of distinct ids.
C8_LastWriteWins ==
    /\ DOMAIN tasks = DOMAIN lastAdded
    /\ \A i \in DOMAIN tasks : tasks[i] = lastAdded[i]
    /\ op = "display" => ret.text = <<"OCTOTREÉ:", Cardinality(DOMAIN lastAdded), "tasks">>

\* display was called after two add_task calls with the same id.
C8_Witness ==
    /\ op = "display"
    /\ numCalls = 2
    /\ Cardinality(DOMAIN lastAdded) = 1
    /\ ret.text[2] = 1

\* C9: an add_task call returns nothing, stores its task under task.id, and
\* leaves every entry stored under another id as it was.
C9_AddTaskFrame ==
    [][numCalls' # numCalls =>
        /\ op' = "add_task" /\ ret' = Unit
        /\ DOMAIN tasks' = DOMAIN tasks \cup {arg'.id}
        /\ tasks'[arg'.id] = arg'
        /\ \A i \in DOMAIN tasks \ {arg'.id} : tasks'[i] = tasks[i]]_vars

\* add_task stored a task with the empty id that lists itself twice and an
\* id that is not a task, next to the entry of A.
C9_Witness ==
    /\ op = "add_task"
    /\ arg.id = "" /\ tasks[""] = arg
    /\ arg.dependencies = <<"", "", "ghost">>
    /\ "A" \in DOMAIN tasks

\* The graph after the first n add_task calls of calls, from the empty graph.
\* C10: tasks with pairwise distinct ids inserted in any other order give a
\* graph on which topological_sort and critical_path have the same possible
\* results.

C10_InsertionOrder ==
    LET sorted == TopoOutcomes(tasks)
        critical == CriticalOutcomes(tasks)
    IN  \A p \in Perms(1..Len(added)) :
            LET other == Build([k \in 1..Len(added) |-> added[p[k]]], Len(added))
            IN  /\ TopoOutcomes(other) = sorted
                /\ CriticalOutcomes(other) = critical

\* Three tasks were inserted, the first of which depends on the last, and
\* the graph can be sorted.
C10_Witness ==
    /\ Len(added) = 3
    /\ added[3].id \in Range(added[1].dependencies)
    /\ \E t \in TopoOutcomes(tasks) : t.ok

(***************************************************************************)
(* Properties of the queries as methods on &self.                          *)
(***************************************************************************)
\* A graph built by add_task calls alone, from OctoTree::new(), that holds
\* the tasks of ts.
FreshGraph(ts) ==
    LET o == CHOOSE f \in Perms(DOMAIN ts) : TRUE
    IN  Build([k \in 1..Len(o) |-> ts[o[k]]], Len(o))

\* C11: whatever calls of add_task, topological_sort and critical_path came
\* before, what a topological_sort call returns is one of the results of
\* topological_sort on a freshly built graph with the same tasks, and it is
\* Ok exactly when those are.
C11_QueriesKeepNoState ==
    op = "topological_sort" =>
        LET fresh == TopoOutcomes(FreshGraph(tasks))
        IN  /\ ret \in fresh
            /\ \A r \in fresh : r.ok = ret.ok

\* topological_sort has returned an order of three tasks after a query, an
\* add_task call and earlier queries on the graph.
C11_Witness ==
    /\ op = "topological_sort"
    /\ phase = "requeried"
    /\ ret.ok
    /\ Len(ret.order) = 3

\* C12: a step that is a topological_sort or a critical_path call leaves the
\* task map as it was: the same ids, and for each id the same name, duration
\* and dependencies, whether the call returns Ok or Err.
C12_QueriesArePure ==
    [][op' \in {"topological_sort", "critical_path"} => tasks' = tasks]_vars

\* critical_path has returned Err on a graph of three tasks, which still
\* holds every task as it was passed to add_task.
C12_Witness ==
    /\ op = "critical_path"
    /\ ~ret.ok
    /\ Cardinality(DOMAIN tasks) = 3
    /\ tasks = lastAdded

(***************************************************************************)
(* Properties of topological_sort on graphs of a given shape.              *)
(***************************************************************************)
\* order lists the tasks of ts as a linear chain: its first task has no
\* dependencies and every other one depends on exactly the one before it.
IsChain(ts, order) ==
    /\ order # <<>>
    /\ IsPermutationOf(order, DOMAIN ts)
    /\ ts[order[1]].dependencies = <<>>
    /\ \A k \in 2..Len(order) : ts[order[k]].dependencies = <<order[k - 1]>>

\* C13: on a linear chain topological_sort returns Ok with the chain order,
\* and on the workflow of TradingWorkflow::new() get_execution_order returns
\* fetch_data, calculate_indicators, generate_signals, risk_check,
\* execute_trades.
C13_ChainOrder ==
    op = "topological_sort" =>
        /\ \A order \in Perms(DOMAIN tasks) : IsChain(tasks, order) => ret = Ok(order, 0)
        /\ tasks = TradingWorkflow_new =>
               ret = Ok(<<"fetch_data", "calculate_indicators", "generate_signals",
                          "risk_check", "execute_trades">>, 0)

\* get_execution_order has returned on the workflow of TradingWorkflow::new().
C13_Witness ==
    /\ op = "topological_sort"
    /\ tasks = TradingWorkflow_new
    /\ Len(ret.order) = Len(PipelineTasks)

\* The tasks of ts that have no dependencies.
Roots(ts) == {i \in DOMAIN ts : ts[i].dependencies = <<>>}

\* The scenario of test_adag_critical_path: A, B that depends on A, and C
\* that depends on A.
IsFanOut(ts) ==
    /\ DOMAIN ts = {"A", "B", "C"}
    /\ ts["A"].dependencies = <<>>
    /\ ts["B"].dependencies = <<"A">>
    /\ ts["C"].dependencies = <<"A">>

\* C14: when topological_sort returns Ok on a graph with exactly one task
\* without dependencies, that task is the first id of the order; on A,
\* B (depends on A), C (depends on A) it returns Ok with A first, then B
\* and C.
C14_SingleRootFirst ==
    op = "topological_sort" =>
        /\ ret.ok => \A i \in DOMAIN tasks : Roots(tasks) = {i} => ret.order[1] = i
        /\ IsFanOut(tasks) =>
               ret.ok /\ ret.order[1] = "A" /\ {ret.order[2], ret.order[3]} = {"B", "C"}

\* topological_sort has returned A, C, B on the scenario.
C14_Witness ==
    /\ op = "topological_sort"
    /\ IsFanOut(tasks)
    /\ ret.order = <<"A", "C", "B">>

\* C15: on the graph without tasks topological_sort returns Ok with the
\* empty sequence, and critical_path returns Ok with no critical task and
\* max_time 0.
C15_EmptyGraph ==
    tasks = EmptyMap =>
        /\ op = "topological_sort" => ret.ok /\ ret.order = <<>>
        /\ op = "critical_path" => ret.ok /\ ret.order = <<>> /\ ret.max_time = 0

\* critical_path has returned on the graph of OctoTree::new().
C15_Witness ==
    /\ tasks = EmptyMap
    /\ op = "critical_path"
    /\ ret.ok

(***************************************************************************)
(* Names and durations.                                                    *)
(***************************************************************************)
\* The graph ts with the ids and the dependencies of its tasks, and one name
\* and one duration for all of them.
Unlabelled(ts) ==
    [i \in DOMAIN ts |-> Task(ts[i].id, "Task", 5, ts[i].dependencies)]

\* What topological_sort and critical_path can return on ts, for each pair
\* of iteration orders.
QueryOutcomes(ts) == {<<run.ret, CriticalFrom(ts, run).ret>> : run \in TopoRuns(ts)}

\* C16: a graph has the same possible results of topological_sort and of
\* critical_path (critical tasks and max_time) as the graph with the same
\* ids and dependencies in which every task has the same name and the same
\* duration; so two graphs that differ only in names or durations have the
\* same results.
C16_LabelsIgnored == QueryOutcomes(tasks) = QueryOutcomes(Unlabelled(tasks))

\* A chain of three tasks, one with another name and one with another
\* duration than the rest.
C16_Witness ==
    /\ \E order \in Perms(DOMAIN tasks) : IsChain(tasks, order) /\ Len(order) = 3
    /\ \E i \in DOMAIN tasks : tasks[i].name = ""
    /\ \E i \in DOMAIN tasks : tasks[i].duration = 3

(***************************************************************************)
(* Termination of topological_sort.                                        *)
(***************************************************************************)
\* C17: in a topological_sort run, the ids that were taken from the queue
\* and the ids that wait on it are together no more than the tasks, so the
\* loop takes an id at most once per task; and every run that has started
\* returns.
C17_SortTerminates ==
    /\ [](Len(locals.result) + Len(locals.queue) <= Cardinality(DOMAIN tasks))
    /\ (locals.pc # "idle") ~> (locals.pc = "idle" /\ op = "topological_sort")

\* A run on a graph with a dependency cycle and a dependency that is not a
\* task has returned the cycle error after one iteration of the loop.
C17_Witness ==
    /\ locals.pc = "idle"
    /\ op = "topological_sort"
    /\ HasCycle(tasks)
    /\ HasGhost(tasks)
    /\ ~ret.ok
    /\ Len(result) = 1

(***************************************************************************)
(* The A-DAG screen.                                                       *)
(***************************************************************************)
\* The lines that follow the four heading lines of the screen.
TaskLines(lines) == SubSeq(lines, Len(Heading(<<>>)) + 1, Len(lines))

\* C18: draw_content returns Ok; after the heading it has queued no line
\* when get_execution_order returns Err, and when it returns Ok one line
\* for each id of the order, in that order, numbered from 1.
C18_DrawHandlesErr ==
    op = "draw_content" =>
        /\ ret.ok
        /\ \E order \in TopoOutcomes(tasks) :
               LET lines == TaskLines(ret.text)
               IN  IF order.ok
                   THEN /\ Len(lines) = Len(order.order)
                        /\ \A k \in 1..Len(lines) :
                               lines[k][2] = k /\ lines[k][4] = order.order[k]
                   ELSE lines = <<>>

\* The screen was drawn for a graph of three tasks that cannot be ordered:
\* it has the heading lines and nothing else.
C18_Witness ==
    /\ op = "draw_content"
    /\ Cardinality(DOMAIN tasks) = 3
    /\ Len(result) < 3
    /\ ret.ok
    /\ Len(ret.text) = Len(Heading(<<>>))

(***************************************************************************)
(* Properties of KeyBounceBolt.                                            *)
(***************************************************************************)
\* The output of a call reports the key as accepted, or as filtered.
IsAccepted(out, key) == out = <<<<"Key accepted: ", key>>>>

IsFiltered(out, key) == out = <<<<"Bounce filtered: ", key>>>>

\* The key that was accepted last in the first n calls of h, as an Option.
RECURSIVE LastAccepted(_, _)
LastAccepted(h, n) ==
    IF n = 0 THEN <<>>
    ELSE IF IsAccepted(h[n].output, h[n].input) THEN <<h[n].input>>
    ELSE LastAccepted(h, n - 1)

Inputs(h) == [n \in 1..Len(h) |-> h[n].input]

\* C19: each call reports its key as accepted when no key was accepted
\* before or the key differs from the one accepted last, and as filtered
\* otherwise; the key the bolt remembers is the one accepted last, which a
\* filtered key leaves as it is; and A, A, B, B, A is reported as accepted,
\* filtered, accepted, filtered, accepted.
C19_KeyBounce ==
    /\ \A n \in 1..Len(history) :
           IF LastAccepted(history, n - 1) # <<history[n].input>>
           THEN IsAccepted(history[n].output, history[n].input)
           ELSE IsFiltered(history[n].output, history[n].input)
    /\ key_bounce.last_key = LastAccepted(history, Len(history))
    /\ Inputs(history) = <<"A", "A", "B", "B", "A">> =>
           /\ IsAccepted(history[1].output, "A")
           /\ IsFiltered(history[2].output, "A")
           /\ IsAccepted(history[3].output, "B")
           /\ IsFiltered(history[4].output, "B")
           /\ IsAccepted(history[5].output, "A")

\* The bolt was sent A, A, B, B, A.
C19_Witness ==
    /\ Inputs(history) = <<"A", "A", "B", "B", "A">>
    /\ key_bounce.last_key = <<"A">>
    /\ op = "execute"

(***************************************************************************)
(* Properties of SumBolt.                                                  *)
(***************************************************************************)
\* The input, trimmed, is the text of a number.
IsNumber(input) ==
    LET num == parse_f64(Trim(input)) IN num.ok /\ ~num.value.nan

\* The sum of the numbers among the inputs of the first n calls of h.
RECURSIVE SumOfNumbers(_, _)
SumOfNumbers(h, n) ==
    IF n = 0 THEN Finite(0)
    ELSE IF IsNumber(h[n].input)
    THEN F64Add(SumOfNumbers(h, n - 1), parse_f64(Trim(h[n].input)).value)
    ELSE SumOfNumbers(h, n - 1)

\* The total before the n-th call of h.
TotalBefore(h, n) == IF n = 1 THEN SumBolt_new.total ELSE h[n - 1].total

C21_OkIffResolvedAcyclic ==
    op = "topological_sort" => (ret.ok <=> (~HasGhost(tasks) /\ ~HasCycle(tasks)))

\* topological_sort has returned Err on three tasks without a cycle, the
\* last of a chain of which lists an id that is not a task.
C21_Witness ==
    /\ op = "topological_sort"
    /\ Cardinality(DOMAIN tasks) = 3
    /\ ~HasCycle(tasks)
    /\ Cardinality({i \in DOMAIN tasks : ListsGhost(tasks, i)}) = 1
    /\ Len(result) = 2
    /\ ~ret.ok

\* C22: when topological_sort returns Ok, every id in the dependencies of a
\* task of the order stands in the order before the task.
C22_OkIsTopological ==
    (op = "topological_sort" /\ ret.ok) =>
        \A k \in 1..Len(ret.order) :
            \A d \in Range(tasks[ret.order[k]].dependencies) :
                \E j \in 1..(k - 1) : ret.order[j] = d

\* topological_sort has returned an order of three tasks, the last of which
\* lists the two others.
C22_Witness ==
    /\ op = "topological_sort"
    /\ ret.ok
    /\ Len(ret.order) = 3
    /\ Range(tasks[ret.order[3]].dependencies) = {ret.order[1], ret.order[2]}

(***************************************************************************)
(* Invariants of a topological_sort run, between the iterations of its     *)
(* loops.                                                                  *)
(***************************************************************************)
\* A run of topological_sort is in progress.
Running == locals.pc \in {"seed", "loop"}

\* The tasks that list an id that is not a task, and the tasks that depend
\* on such a task directly or through other tasks.
Blocked(ts) ==
    {i \in DOMAIN ts : ListsGhost(ts, i) \/ \E j \in Below(ts, i) : ListsGhost(ts, j)}

\* C23: throughout a run, a task that lists an id that is not a task, and
\* every task that depends on it directly or transitively, has an in-degree
\* of at least 1 and is neither on the queue nor in the result; it is not in
\* the result when the call returns.
C23_BlockedNeverReady ==
    /\ Running =>
           \A i \in Blocked(tasks) :
               /\ locals.in_degree[i] >= 1
               /\ i \notin Range(locals.queue)
               /\ i \notin Range(locals.result)
    /\ (locals.pc = "idle" /\ op = "topological_sort") =>
           \A i \in Blocked(tasks) : i \notin Range(result)

\* The loop has ended with one task in the result; of the two others one
\* lists an id that is not a task and the other depends on it.
C23_Witness ==
    /\ locals.pc = "loop"
    /\ locals.queue = <<>>
    /\ Len(locals.result) = 1
    /\ Cardinality(Blocked(tasks)) = 2
    /\ \E i \in Blocked(tasks) : ~ListsGhost(tasks, i)

\* C26: in every run no in-degree is decremented at 0: the counters stay at
\* 0 or above and no decrement has overflowed.
C26_NoUnderflow ==
    /\ ~locals.underflow
    /\ \A i \in DOMAIN locals.in_degree : locals.in_degree[i] >= 0

\* A run has decremented to 0 the in-degree of a task that lists the same
\* task twice, on a graph where another task lists itself.
C26_Witness ==
    /\ locals.pc = "loop"
    /\ \E i, j \in DOMAIN tasks :
           /\ tasks[i].dependencies = <<j, j>>
           /\ locals.in_degree[i] = 0
    /\ \E i \in DOMAIN tasks : tasks[i].dependencies = <<i>>

\* C27: in every run the ids on the queue and in the result are pairwise
\* distinct, so that no id is put on the queue twice, and the result has no
\* more entries than the graph has tasks.
C27_EnqueuedOnce ==
    LET seen == locals.result \o locals.queue
    IN  /\ \A k, l \in 1..Len(seen) : seen[k] = seen[l] => k = l
        /\ Len(locals.result) <= Cardinality(DOMAIN tasks)
        /\ \A k, l \in 1..Len(result) : result[k] = result[l] => k = l

\* A run has three tasks in its result, the last of which was put on the
\* queue by the second of the decrements of its in-degree.
C27_Witness ==
    /\ locals.pc = "loop"
    /\ Len(locals.result) = 3
    /\ Len(tasks[locals.result[3]].dependencies) = 2

(***************************************************************************)
(* Ties among the tasks that are ready at the same time.                   *)
(***************************************************************************)
\* C24: on a graph of two tasks without dependencies each of the two orders
\* is a possible result of topological_sort, and on A, B (depends on A),
\* C (depends on A) both A, B, C and A, C, B are possible results.
C24_NoTieBreak ==
    /\ \A i, j \in DOMAIN tasks :
           (i # j /\ DOMAIN tasks = {i, j} /\ Roots(tasks) = {i, j}) =>
               Ok(<<i, j>>, 0) \in TopoOutcomes(tasks)
    /\ IsFanOut(tasks) =>
           /\ Ok(<<"A", "B", "C">>, 0) \in TopoOutcomes(tasks)
           /\ Ok(<<"A", "C", "B">>, 0) \in TopoOutcomes(tasks)

\* topological_sort has returned B, A on the graph of A and B without
\* dependencies.
C24_Witness ==
    /\ op = "topological_sort"
    /\ DOMAIN tasks = {"A", "B"}
    /\ Roots(tasks) = {"A", "B"}
    /\ ret.order = <<"B", "A">>

\* C25: the runs of topological_sort on a graph, over the iteration orders
\* of its maps, agree on Ok or Err and on the set of the ids that are in
\* result when the queue runs empty.
C25_OutcomeOrderFree ==
    Cardinality({<<run.ret.ok, Range(run.result)>> : run \in TopoRuns(tasks)}) = 1

\* A graph of two tasks without dependencies and a third that lists an id
\* that is not a task: two runs order the two in different orders, and every
\* run returns Err.
C25_Witness ==
    /\ Cardinality(DOMAIN tasks) = 3
    /\ Cardinality(Roots(tasks)) = 2
    /\ HasGhost(tasks)
    /\ \E r1, r2 \in TopoRuns(tasks) :
           r1.result # r2.result /\ Len(r1.result) = 2 /\ ~r1.ret.ok /\ ~r2.ret.ok

(***************************************************************************)
(* Dependencies listed more than once.                                     *)
(***************************************************************************)
\* The number of times x is in seq.
Count(seq, x) == Cardinality({k \in 1..Len(seq) : seq[k] = x})

\* seq without the repetitions of its elements.
RECURSIVE Once(_)
Once(seq) ==
    IF seq = <<>> THEN seq
    ELSE LET front == SubSeq(seq, 1, Len(seq) - 1)
             last == seq[Len(seq)]
         IN  IF last \in Range(front) THEN Once(front) ELSE Append(Once(front), last)

\* The graph ts with every dependency listed once.
ListedOnce(ts) ==
    [i \in DOMAIN ts |-> Task(ts[i].id, ts[i].name, ts[i].duration, Once(ts[i].dependencies))]

\* C30: topological_sort has the same possible results on a graph as on the
\* graph in which every dependency is listed once; in every run a task has
\* one adjacency entry under a dependency for each time it lists it, and a
\* task in the result has in-degree 0.
C30_RepeatedDependency ==
    /\ TopoOutcomes(tasks) = TopoOutcomes(ListedOnce(tasks))
    /\ \A run \in TopoRuns(tasks) :
           /\ \A i \in DOMAIN tasks : \A d \in Range(tasks[i].dependencies) :
                  Count(run.adj_list[d], i) = Count(tasks[i].dependencies, d)
           /\ \A i \in Range(run.result) : run.in_degree[i] = 0

\* A graph of three tasks that can be ordered, in which a task lists another
\* task twice.
C30_Witness ==
    /\ Cardinality(DOMAIN tasks) = 3
    /\ \E i, j \in DOMAIN tasks : i # j /\ tasks[i].dependencies = <<j, j>>
    /\ \E order \in TopoOutcomes(tasks) : order.ok /\ Len(order.order) = 3

(***************************************************************************)
(* Ids that are not tasks.                                                 *)
(***************************************************************************)
\* The critical task list that critical_path builds when its
\* topological_sort call is the run that has just returned.
CriticalTasks == CriticalFrom(tasks, [ret |-> ret, result |-> result]).ret.order

\* C28: every id on the queue and in the result of a run is the id of a
\* task, and so is every id of the order returned and of the critical task
\* list built from it, also when adj_list has an entry under an id that is
\* not a task.
C28_OnlyTasksOrdered ==
    /\ Range(locals.queue) \cup Range(locals.result) \subseteq DOMAIN tasks
    /\ (locals.pc = "idle" /\ op = "topological_sort") =>
           /\ Range(result) \cup Range(ret.order) \subseteq DOMAIN tasks
           /\ Range(CriticalTasks) \subseteq DOMAIN tasks

\* The loop of a run has ended with a task in the result while adj_list
\* holds a task under "ghost", which is not a task.
C28_Witness ==
    /\ locals.pc = "loop"
    /\ locals.queue = <<>>
    /\ locals.result # <<>>
    /\ "ghost" \in DOMAIN locals.adj_list
    /\ "ghost" \notin DOMAIN tasks

(***************************************************************************)
(* The order of a FIFO queue.                                              *)
(***************************************************************************)
\* The length of the longest chain of dependencies below task i, followed
\* for n steps at most.
RECURSIVE DepthUpTo(_, _, _)
DepthUpTo(ts, i, n) ==
    IF n = 0 \/ DepsOf(ts, i) = {} THEN 0
    ELSE 1 + MaxOr0({DepthUpTo(ts, d, n - 1) : d \in DepsOf(ts, i)})

Depth(ts, i) == DepthUpTo(ts, i, Cardinality(DOMAIN ts))

\* A and C without dependencies, and B that depends on A.
IsChainAndLoner(ts) ==
    /\ DOMAIN ts = {"A", "B", "C"}
    /\ ts["A"].dependencies = <<>>
    /\ ts["B"].dependencies = <<"A">>
    /\ ts["C"].dependencies = <<>>

\* C29: an order that topological_sort returns lists the tasks in
\* nondecreasing depth, the tasks without dependencies first; on A, C and
\* B (depends on A) the order A, B, C, in which every dependency comes
\* before its task, is not a possible result.
C29_FifoLevels ==
    /\ (op = "topological_sort" /\ ret.ok) =>
           \A k, l \in 1..Len(ret.order) :
               k < l => Depth(tasks, ret.order[k]) <= Depth(tasks, ret.order[l])
    /\ IsChainAndLoner(tasks) =>
           /\ DepsFirst(tasks, <<"A", "B", "C">>)
           /\ Ok(<<"A", "B", "C">>, 0) \notin TopoOutcomes(tasks)

\* topological_sort has returned A, C, B on A, C and B (depends on A).
C29_Witness ==
    /\ op = "topological_sort"
    /\ IsChainAndLoner(tasks)
    /\ ret.order = <<"A", "C", "B">>

====
